---- MODULE Spec2Model ----
(***************************************************************************)
(* Model of shared_services/task_queue_service.py: the TaskQueue class, a  *)
(* bounded asyncio.Queue of Task objects drained by a worker coroutine.    *)
(* Every step of the model is one run of a coroutine between two of its    *)
(* suspension points on the single-threaded event loop; synchronous jobs   *)
(* run in executor threads and finish on their own.                        *)
(* Three users of the event loop are modelled next to the queue: the       *)
(* start-up and shutdown sequence of manager_bot/main.py, the command of   *)
(* manager_bot/manager_bot.py that queues the analysis of a vacancy, and   *)
(* the periodic loop of shared_services/scheduler_service.py.              *)
(***************************************************************************)
EXTENDS Naturals, Sequences, FiniteSets

\* Bounds of the model
Cap == 2            \* maxsize given to TaskQueue(maxsize)
MaxCalls == 5       \* number of calls of the public methods in one run
NUsers == 2         \* number of users in the records file of the periodic task
MaxCycles == 3      \* number of cycles of the periodic loop that reach the wait

\* Calls are numbered in the order they are made.  A job, a worker task and a
\* stop_worker call are named by the number of the call that made them.
Calls == 1..MaxCalls
Jobs == Calls
Workers == Calls
Stops == Calls

VARIABLES
    queue,           \* self._queue: the items held by the asyncio.Queue
    unfinished,      \* self._queue._unfinished_tasks (put increments, task_done decrements)
    putters,         \* self._queue._putters: put callers suspended on a full queue
    woken,           \* put callers whose waiter was resolved and that have not resumed yet
    worker_running,  \* self._worker_running
    worker_task,     \* self._worker_task (0 is None, otherwise a worker task)
    wpc,             \* position of each worker task in _worker
    wjob,            \* the task a worker holds while in _execute_task (0: none)
    wcancel,         \* cancellation requested on the worker task and not yet delivered
    running,         \* jobs whose callable is executing now (coroutine or executor thread)
    jkind,           \* func of each Task object in the queue or executing: "async"
                     \* (coroutine function) or "sync" (plain function)
    putRet,          \* per job: state / return value of the put or put_nowait call
    ncalls,          \* number of calls of public methods made so far
    inserted,        \* history: jobs in the order they entered the queue
    started,         \* history: jobs in the order _execute_task began on them
    finished,        \* history: jobs whose callable ran to its end (returned or raised)
    failed,          \* jobs whose callable raised an Exception (for a synchronous
                     \* job: the exception set on its executor future)
    spc,             \* position of each stop_worker call
    swait,           \* the wait argument of each stop_worker call
    starget,         \* the worker task a stop_worker call cancelled and awaits
    sbacklog,        \* history: the queue contents when stop_worker was called
    sexec,           \* for a stop_worker call that has not returned: the jobs that
                     \* were executing when it was called
    epc,             \* position of each wait_empty call that is suspended
    elen,            \* for a suspended wait_empty call: how many jobs had been
                     \* accepted when it was called
    last,            \* the public operation performed by the last step, with its result
    mpc,             \* position of run_manager_bot
    mlog,            \* history: the shutdown steps run_manager_bot has been through
    shutting_down,   \* the global _shutting_down of manager_bot/main.py
    vac,             \* the record of one vacancy in the Vacancies table
    vwrote,          \* analysis jobs that have written their result to the record
    ppc,             \* position of run_periodic_task_for_all_users
    pflag,           \* what shutdown_flag() returns ("none": no callable was given)
    puser,           \* number of users of the records the current cycle has been through
    pcycle,          \* number of cycles of the periodic loop begun so far
    pinvoked,        \* number of invocations of task_function so far
    pseen,           \* a call of shutdown_flag() has returned True
    pcancel          \* cancellation requested on the periodic task and not yet delivered

vars == <<queue, unfinished, putters, woken, worker_running, worker_task,
          wpc, wjob, wcancel, running, jkind, putRet, ncalls,
          inserted, started, finished, failed, spc, swait, starget, sbacklog,
          sexec, epc, elen, last,
          mpc, mlog, shutting_down, vac, vwrote,
          ppc, pflag, puser, pcycle, pinvoked, pseen, pcancel>>

qvars == <<queue, unfinished, putters, woken>>
wvars == <<worker_running, worker_task, wpc, wjob, wcancel>>
jvars == <<running, jkind, putRet, inserted, started, finished, failed>>
svars == <<spc, swait, starget, sbacklog, sexec>>
evars == <<epc, elen>>
mvars == <<mpc, mlog, shutting_down>>
cvars == <<vac, vwrote>>
pvars == <<ppc, pflag, puser, pcycle, pinvoked, pseen, pcancel>>
\* the state outside the TaskQueue object
xvars == <<mvars, cvars, pvars>>

Step == <<"step", 0, FALSE>>

\* TaskQueue.__init__
QueueInit ==
    /\ queue = <<>>
    /\ unfinished = 0
    /\ putters = <<>>
    /\ woken = {}
    /\ worker_running = FALSE
    /\ worker_task = 0
    /\ wpc = [w \in Workers |-> "none"]
    /\ wjob = [w \in Workers |-> 0]
    /\ wcancel = [w \in Workers |-> FALSE]
    /\ running = {}
    /\ jkind = [j \in Jobs |-> "none"]
    /\ putRet = [j \in Jobs |-> "none"]
    /\ ncalls = 0
    /\ inserted = <<>>
    /\ started = <<>>
    /\ finished = {}
    /\ failed = {}
    /\ spc = [s \in Stops |-> "idle"]
    /\ swait = [s \in Stops |-> FALSE]
    /\ starget = [s \in Stops |-> 0]
    /\ sbacklog = [s \in Stops |-> <<>>]
    /\ sexec = [s \in Stops |-> {}]
    /\ epc = [c \in Calls |-> "none"]
    /\ elen = [c \in Calls |-> 0]
    /\ last = Step

\* run_manager_bot has not been entered; _shutting_down = False
MainInit ==
    /\ mpc = "setup"
    /\ mlog = <<>>
    /\ shutting_down = FALSE

\* a vacancy whose description was received and is not analysed yet
VacancyInit ==
    /\ vac = [exists |-> TRUE, description_recieved |-> TRUE,
              sourcing_criterias_recieved |-> FALSE]
    /\ vwrote = {}

\* run_periodic_task_for_all_users has not been entered
PeriodicInit ==
    /\ ppc = "off"
    /\ pflag = "none"
    /\ puser = 0
    /\ pcycle = 0
    /\ pinvoked = 0
    /\ pseen = FALSE
    /\ pcancel = FALSE

Init == QueueInit /\ MainInit /\ VacancyInit /\ PeriodicInit

----------------------------------------------------------------------------
\* asyncio.Queue primitives used by the class

QueueFull_off == IF Cap <= 0 THEN FALSE ELSE Len(queue) > Cap

\* Queue.full(): maxsize <= 0 means unbounded
QueueFull == IF Cap <= 0 THEN FALSE ELSE Len(queue) >= Cap

\* Queue.empty()
QueueEmpty == Len(queue) = 0


QueueAfterPut_front(j) == <<j>> \o queue

\* Queue._put(item): deque.append
QueueAfterPut(j) == Append(queue, j)

\* Queue.put_nowait(item) on a queue with room: _put, _unfinished_tasks += 1,
\* _finished.clear()
QueuePutItem(j) ==
    /\ queue' = QueueAfterPut(j)
    /\ unfinished' = unfinished + 1
    /\ inserted' = Append(inserted, j)

QueueGetItem_nowake ==
    /\ queue' = Tail(queue)
    /\ UNCHANGED <<woken, putters>>

\* Queue.get_nowait(): popleft, then _wakeup_next(self._putters)
QueueGetItem ==
    /\ queue' = Tail(queue)
    /\ IF putters # <<>>
         THEN /\ woken' = woken \cup {Head(putters)}
              /\ putters' = Tail(putters)
         ELSE UNCHANGED <<woken, putters>>

JoinSuspends_never == FALSE

\* Queue.join(): `if self._unfinished_tasks > 0: await self._finished.wait()`
JoinSuspends == unfinished > 0

\* Queue.task_done(): _unfinished_tasks -= 1; at zero _finished.set() resolves
\* the waiter of every coroutine suspended in Queue.join()
\* QueueTaskDone that releases the callers suspended in join one job early
QueueTaskDone_early ==
    /\ unfinished' = unfinished - 1
    /\ spc' = [s \in Stops |->
                 IF spc[s] = "join" /\ unfinished - 1 <= 1 THEN "joined" ELSE spc[s]]
    /\ epc' = [c \in Calls |->
                 IF epc[c] = "join" /\ unfinished - 1 <= 1 THEN "joined" ELSE epc[c]]

QueueTaskDone ==
    /\ unfinished' = unfinished - 1
    /\ spc' = [s \in Stops |->
                 IF spc[s] = "join" /\ unfinished - 1 = 0 THEN "joined" ELSE spc[s]]
    /\ epc' = [c \in Calls |->
                 IF epc[c] = "join" /\ unfinished - 1 = 0 THEN "joined" ELSE epc[c]]

----------------------------------------------------------------------------
\* TaskQueue.put: a new caller.  With room the item is inserted without
\* suspending; on a full queue the caller is appended to _putters and suspends.
Put(j, k) ==
    /\ j = ncalls + 1
    /\ ncalls' = j
    /\ jkind' = [jkind EXCEPT ![j] = k]
    /\ IF QueueFull
         THEN /\ putters' = Append(putters, j)
              /\ putRet' = [putRet EXCEPT ![j] = "suspended"]
              /\ last' = <<"put_suspend", j, FALSE>>
              /\ UNCHANGED <<queue, unfinished, inserted, woken>>
         ELSE /\ QueuePutItem(j)
              /\ putRet' = [putRet EXCEPT ![j] = "True"]
              /\ last' = <<"put", j, TRUE>>
              /\ UNCHANGED <<putters, woken>>
    /\ UNCHANGED <<wvars, svars, evars, running, started, finished, failed>>
    /\ UNCHANGED xvars

PutResume_nocheck(j) ==
    /\ j \in woken
    /\ QueuePutItem(j)
    /\ woken' = woken \ {j}
    /\ putRet' = [putRet EXCEPT ![j] = "True"]
    /\ last' = <<"put", j, TRUE>>
    /\ UNCHANGED putters
    /\ UNCHANGED <<wvars, svars, evars, ncalls, running, jkind, started, finished, failed>>
    /\ UNCHANGED xvars

\* TaskQueue.put, resumed after its waiter was resolved: the loop of Queue.put
\* tests full() again and either suspends again (at the back of _putters) or
\* inserts and returns True.
PutResume(j) ==
    /\ j \in woken
    /\ IF QueueFull
         THEN /\ putters' = Append(putters, j)
              /\ woken' = woken \ {j}
              /\ last' = <<"put_suspend", j, FALSE>>
              /\ UNCHANGED <<queue, unfinished, inserted, putRet>>
         ELSE /\ QueuePutItem(j)
              /\ woken' = woken \ {j}
              /\ putRet' = [putRet EXCEPT ![j] = "True"]
              /\ last' = <<"put", j, TRUE>>
              /\ UNCHANGED putters
    /\ UNCHANGED <<wvars, svars, evars, ncalls, running, jkind, started, finished, failed>>
    /\ UNCHANGED xvars

PutNowait_waits(j, k) ==
    /\ j = ncalls + 1
    /\ ncalls' = j
    /\ jkind' = [jkind EXCEPT ![j] = k]
    /\ IF QueueFull
         THEN /\ putters' = Append(putters, j)
              /\ putRet' = [putRet EXCEPT ![j] = "suspended"]
              /\ last' = <<"put_nowait", j, FALSE>>
              /\ UNCHANGED <<queue, unfinished, inserted>>
         ELSE /\ QueuePutItem(j)
              /\ putRet' = [putRet EXCEPT ![j] = "True"]
              /\ last' = <<"put_nowait", j, TRUE>>
              /\ UNCHANGED putters
    /\ UNCHANGED <<woken, wvars, svars, evars, running, started, finished, failed>>
    /\ UNCHANGED xvars

\* TaskQueue.put_nowait: Queue.put_nowait raises QueueFull on a full queue,
\* which the method turns into the return value False.
PutNowait(j, k) ==
    /\ j = ncalls + 1
    /\ ncalls' = j
    /\ IF QueueFull
         THEN /\ putRet' = [putRet EXCEPT ![j] = "False"]
              /\ last' = <<"put_nowait", j, FALSE>>
              /\ UNCHANGED <<queue, unfinished, inserted, jkind>>
         ELSE /\ QueuePutItem(j)
              /\ jkind' = [jkind EXCEPT ![j] = k]
              /\ putRet' = [putRet EXCEPT ![j] = "True"]
              /\ last' = <<"put_nowait", j, TRUE>>
    /\ UNCHANGED <<putters, woken, wvars, svars, evars, running, started, finished, failed>>
    /\ UNCHANGED xvars

----------------------------------------------------------------------------
\* The worker coroutine

\* `while self._worker_running:` evaluated by a worker: it goes on to the
\* next Queue.get or leaves the loop and the task ends
LoopTest == IF worker_running THEN "get" ELSE "done"

\* First step of a worker task created by start_worker
WorkerBegin(w) ==
    /\ wpc[w] = "new"
    /\ ~wcancel[w]
    /\ wpc' = [wpc EXCEPT ![w] = LoopTest]
    /\ last' = Step
    /\ UNCHANGED <<qvars, jvars, svars, evars, worker_running, worker_task, ncalls,
                   wjob, wcancel>>
    /\ UNCHANGED xvars

\* wait_for(self._queue.get(), 1.0) returns an item and _execute_task begins:
\* a coroutine function is awaited in the worker, a plain function is handed
\* to run_in_executor and its future awaited
WorkerGet(w) ==
    /\ wpc[w] = "get"
    /\ ~wcancel[w]
    /\ ~QueueEmpty
    /\ QueueGetItem
    /\ wpc' = [wpc EXCEPT ![w] = "exec"]
    /\ wjob' = [wjob EXCEPT ![w] = Head(queue)]
    /\ started' = Append(started, Head(queue))
    /\ running' = running \cup {Head(queue)}
    /\ last' = Step
    /\ UNCHANGED <<svars, evars, unfinished, worker_running, worker_task, ncalls,
                   wcancel, jkind, putRet, inserted, finished, failed>>
    /\ UNCHANGED xvars

\* WorkerTimeout with a get that has no timeout: the worker keeps waiting
WorkerTimeout_blocks(w) ==
    /\ wpc[w] = "get"
    /\ ~wcancel[w]
    /\ QueueEmpty
    /\ wpc' = [wpc EXCEPT ![w] = "get"]
    /\ last' = Step
    /\ UNCHANGED <<qvars, jvars, svars, evars, worker_running, worker_task, ncalls,
                   wjob, wcancel>>
    /\ UNCHANGED xvars

\* wait_for raises TimeoutError on an empty queue: `continue`, the loop
\* condition is tested again
WorkerTimeout(w) ==
    /\ wpc[w] = "get"
    /\ ~wcancel[w]
    /\ QueueEmpty
    /\ wpc' = [wpc EXCEPT ![w] = LoopTest]
    /\ last' = Step
    /\ UNCHANGED <<qvars, jvars, svars, evars, worker_running, worker_task, ncalls,
                   wjob, wcancel>>
    /\ UNCHANGED xvars

\* WorkerFault with a loop that does not catch the exception and ends
WorkerFault_ends(w) ==
    /\ wpc[w] = "get"
    /\ ~wcancel[w]
    /\ wpc' = [wpc EXCEPT ![w] = "done"]
    /\ last' = <<"fault", w, worker_running>>
    /\ UNCHANGED <<qvars, jvars, svars, evars, worker_running, worker_task, ncalls,
                   wjob, wcancel>>
    /\ UNCHANGED xvars

\* The retrieval `await asyncio.wait_for(self._queue.get(), ...)` raises an
\* Exception other than TimeoutError: `except Exception` logs it and
\* `continue` goes back to the loop condition; no item is taken
WorkerFault(w) ==
    /\ wpc[w] = "get"
    /\ ~wcancel[w]
    /\ wpc' = [wpc EXCEPT ![w] = LoopTest]
    /\ last' = <<"fault", w, worker_running>>
    /\ UNCHANGED <<qvars, jvars, svars, evars, worker_running, worker_task, ncalls,
                   wjob, wcancel>>
    /\ UNCHANGED xvars

\* how a job's callable can end by itself
Outcomes == {"return", "raise"}

\* JobEnd with a loop that ends when a job raises
JobEnd_halts(w, out) ==
    /\ QueueTaskDone
    /\ wpc' = [wpc EXCEPT ![w] = IF out = "raise" THEN "done" ELSE LoopTest]
    /\ wjob' = [wjob EXCEPT ![w] = 0]
    /\ last' = Step
    /\ UNCHANGED <<queue, worker_running, inserted>>

\* JobEnd with a loop that skips task_done for a job that raised
JobEnd_skipdone(w, out) ==
    /\ IF out = "raise" THEN UNCHANGED <<unfinished, spc, epc>> ELSE QueueTaskDone
    /\ wpc' = [wpc EXCEPT ![w] = LoopTest]
    /\ wjob' = [wjob EXCEPT ![w] = 0]
    /\ last' = Step
    /\ UNCHANGED <<queue, worker_running, inserted>>

\* JobEnd with a loop that puts a job that raised back into the queue
JobEnd_retry(w, out) ==
    /\ IF out = "raise"
         THEN /\ queue' = Append(queue, wjob[w])
              /\ UNCHANGED <<unfinished, spc, epc>>
         ELSE /\ QueueTaskDone
              /\ UNCHANGED queue
    /\ wpc' = [wpc EXCEPT ![w] = LoopTest]
    /\ wjob' = [wjob EXCEPT ![w] = 0]
    /\ last' = Step
    /\ UNCHANGED <<worker_running, inserted>>

\* The callable of the job held by worker w ended with outcome out.
\* _execute_task returns the result, or logs an Exception and returns None;
\* either way the worker goes on to self._queue.task_done() and to the loop
\* condition.  The item is not put back and the flag is left alone.
JobEnd(w, out) ==
    /\ QueueTaskDone
    /\ wpc' = [wpc EXCEPT ![w] = LoopTest]
    /\ wjob' = [wjob EXCEPT ![w] = 0]
    /\ last' = Step
    /\ UNCHANGED <<queue, worker_running, inserted>>

\* An asynchronous job returns or raises an Exception in the worker task
JobFinish(w, out) ==
    /\ wpc[w] = "exec"
    /\ ~wcancel[w]
    /\ jkind[wjob[w]] = "async"
    /\ wjob[w] \in running
    /\ running' = running \ {wjob[w]}
    /\ finished' = finished \cup {wjob[w]}
    /\ failed' = IF out = "raise" THEN failed \cup {wjob[w]} ELSE failed
    /\ jkind' = [jkind EXCEPT ![wjob[w]] = "none"]
    /\ JobEnd(w, out)
    /\ UNCHANGED <<putters, woken, worker_task, ncalls,
                   wcancel, putRet, started,
                   swait, starget, sbacklog, sexec, elen>>
    /\ UNCHANGED xvars

\* A synchronous job ends in its executor thread, returning or raising; the
\* outcome is set on its future
ThreadFinish(j, out) ==
    /\ j \in running
    /\ jkind[j] = "sync"
    /\ running' = running \ {j}
    /\ finished' = finished \cup {j}
    /\ failed' = IF out = "raise" THEN failed \cup {j} ELSE failed
    /\ jkind' = [jkind EXCEPT ![j] = "none"]
    /\ last' = Step
    /\ UNCHANGED <<qvars, svars, evars, ncalls, putRet, inserted, started,
                   worker_running, worker_task, wpc, wjob, wcancel>>
    /\ UNCHANGED xvars

\* WorkerResume with a worker that does not await the executor future
WorkerResume_noawait(w) ==
    /\ wpc[w] = "exec"
    /\ ~wcancel[w]
    /\ jkind[wjob[w]] # "async"
    /\ JobEnd(w, IF wjob[w] \in failed THEN "raise" ELSE "return")
    /\ UNCHANGED <<putters, woken, worker_task, ncalls,
                   wcancel, running, jkind, putRet, started, finished, failed,
                   swait, starget, sbacklog, sexec, elen>>
    /\ UNCHANGED xvars

\* The worker resumes from run_in_executor after the thread ended, with the
\* outcome found on the future
WorkerResume(w) ==
    /\ wpc[w] = "exec"
    /\ ~wcancel[w]
    /\ wjob[w] \notin running
    /\ JobEnd(w, IF wjob[w] \in failed THEN "raise" ELSE "return")
    /\ UNCHANGED <<putters, woken, worker_task, ncalls,
                   wcancel, running, jkind, putRet, started, finished, failed,
                   swait, starget, sbacklog, sexec, elen>>
    /\ UNCHANGED xvars

\* WorkerCancelled with a cancellation in _execute_task handled like an
\* ordinary exception: the job is marked done and the loop goes on
WorkerCancelled_swallow(w) ==
    /\ wcancel[w]
    /\ wpc[w] \in {"new", "get", "exec"}
    /\ wjob' = [wjob EXCEPT ![w] = 0]
    /\ wcancel' = [wcancel EXCEPT ![w] = FALSE]
    /\ IF wpc[w] = "exec"
         THEN /\ wpc' = [wpc EXCEPT ![w] = LoopTest]
              /\ QueueTaskDone
              /\ UNCHANGED <<swait, starget, sbacklog, sexec, elen>>
         ELSE /\ wpc' = [wpc EXCEPT ![w] = "done"]
              /\ UNCHANGED <<unfinished, svars, evars>>
    /\ IF wpc[w] = "exec" /\ jkind[wjob[w]] = "async"
         THEN /\ running' = running \ {wjob[w]}
              /\ jkind' = [jkind EXCEPT ![wjob[w]] = "none"]
         ELSE UNCHANGED <<running, jkind>>
    /\ last' = Step
    /\ UNCHANGED <<queue, putters, woken, worker_running, worker_task, ncalls,
                   putRet, inserted, started, finished, failed>>
    /\ UNCHANGED xvars

\* WorkerCancelled with a wait_for that loses the item its get had already
\* taken when the cancellation arrives
WorkerCancelled_drops(w) ==
    /\ wcancel[w]
    /\ wpc[w] \in {"new", "get", "exec"}
    /\ wpc' = [wpc EXCEPT ![w] = "done"]
    /\ wjob' = [wjob EXCEPT ![w] = 0]
    /\ wcancel' = [wcancel EXCEPT ![w] = FALSE]
    /\ IF wpc[w] = "exec" /\ jkind[wjob[w]] = "async"
         THEN /\ running' = running \ {wjob[w]}
              /\ jkind' = [jkind EXCEPT ![wjob[w]] = "none"]
         ELSE UNCHANGED <<running, jkind>>
    /\ IF wpc[w] = "get" /\ ~QueueEmpty
         THEN QueueGetItem
         ELSE UNCHANGED <<queue, putters, woken>>
    /\ last' = Step
    /\ UNCHANGED <<unfinished, svars, evars, worker_running, worker_task, ncalls,
                   putRet, inserted, started, finished, failed>>
    /\ UNCHANGED xvars

\* CancelledError is delivered to a worker task at its suspension point.  In
\* Queue.get it is caught by `except asyncio.CancelledError: break`.  In
\* _execute_task it ends an asynchronous job, is re-raised and caught the
\* same way, so task_done is skipped; the thread of a synchronous job is not
\* interrupted and keeps executing.  A task that never ran just ends.
WorkerCancelled(w) ==
    /\ wcancel[w]
    /\ wpc[w] \in {"new", "get", "exec"}
    /\ wpc' = [wpc EXCEPT ![w] = "done"]
    /\ wjob' = [wjob EXCEPT ![w] = 0]
    /\ wcancel' = [wcancel EXCEPT ![w] = FALSE]
    /\ IF wpc[w] = "exec" /\ jkind[wjob[w]] = "async"
         THEN /\ running' = running \ {wjob[w]}
              /\ jkind' = [jkind EXCEPT ![wjob[w]] = "none"]
         ELSE UNCHANGED <<running, jkind>>
    /\ last' = Step
    /\ UNCHANGED <<qvars, svars, evars, worker_running, worker_task, ncalls,
                   putRet, inserted, started, finished, failed>>
    /\ UNCHANGED xvars

----------------------------------------------------------------------------
start_worker_noguard(w) ==
    /\ w = ncalls + 1
    /\ ncalls' = w
    /\ worker_running' = TRUE
    /\ worker_task' = w
    /\ wpc' = [wpc EXCEPT ![w] = "new"]
    /\ last' = <<"start_worker", w, ~worker_running>>
    /\ UNCHANGED <<wjob, wcancel>>
    /\ UNCHANGED <<qvars, jvars, svars, evars>>
    /\ UNCHANGED xvars

\* TaskQueue.start_worker, made as call number w
start_worker(w) ==
    /\ w = ncalls + 1
    /\ ncalls' = w
    /\ IF worker_running
         THEN /\ last' = <<"start_worker", w, FALSE>>
              /\ UNCHANGED wvars
         ELSE /\ worker_running' = TRUE
              /\ worker_task' = w
              /\ wpc' = [wpc EXCEPT ![w] = "new"]
              /\ last' = <<"start_worker", w, TRUE>>
              /\ UNCHANGED <<wjob, wcancel>>
    /\ UNCHANGED <<qvars, jvars, svars, evars>>
    /\ UNCHANGED xvars

\* Task.cancel() on self._worker_task: no effect on a task that is done
CancelTask(t) ==
    wcancel' = [wcancel EXCEPT ![t] = (wpc[t] # "done")]

\* `if self._worker_task:` cancel it and go on to `await self._worker_task`
StopCancel(s) ==
    IF worker_task # 0
      THEN /\ CancelTask(worker_task)
           /\ starget' = [starget EXCEPT ![s] = worker_task]
           /\ spc' = [spc EXCEPT ![s] = "await"]
      ELSE /\ spc' = [spc EXCEPT ![s] = "returned"]
           /\ UNCHANGED <<wcancel, starget>>

\* stop_worker that cancels the worker task without the join of wait=True
stop_worker_nojoin(s, wait) ==
    /\ s = ncalls + 1
    /\ ncalls' = s
    /\ swait' = [swait EXCEPT ![s] = wait]
    /\ sbacklog' = [sbacklog EXCEPT ![s] = queue]
    /\ IF ~worker_running
         THEN /\ spc' = [spc EXCEPT ![s] = "refused"]
              /\ last' = <<"stop_worker", s, FALSE>>
              /\ UNCHANGED <<worker_running, wcancel, starget, sexec>>
         ELSE /\ worker_running' = FALSE
              /\ sexec' = [sexec EXCEPT ![s] = running]
              /\ last' = <<"stop_worker", s, TRUE>>
              /\ StopCancel(s)
    /\ UNCHANGED <<qvars, jvars, evars, worker_task, wpc, wjob>>
    /\ UNCHANGED xvars

\* stop_worker without the early return of `if not self._worker_running`
stop_worker_noreturn(s, wait) ==
    /\ s = ncalls + 1
    /\ ncalls' = s
    /\ swait' = [swait EXCEPT ![s] = wait]
    /\ sbacklog' = [sbacklog EXCEPT ![s] = queue]
    /\ worker_running' = FALSE
    /\ sexec' = [sexec EXCEPT ![s] = running]
    /\ last' = <<"stop_worker", s, worker_running>>
    /\ IF wait /\ JoinSuspends
         THEN /\ spc' = [spc EXCEPT ![s] = "join"]
              /\ UNCHANGED <<wcancel, starget>>
         ELSE StopCancel(s)
    /\ UNCHANGED <<qvars, jvars, evars, worker_task, wpc, wjob>>
    /\ UNCHANGED xvars

\* TaskQueue.stop_worker(wait) up to its first suspension
stop_worker(s, wait) ==
    /\ s = ncalls + 1
    /\ ncalls' = s
    /\ swait' = [swait EXCEPT ![s] = wait]
    /\ sbacklog' = [sbacklog EXCEPT ![s] = queue]
    /\ IF ~worker_running
         THEN /\ spc' = [spc EXCEPT ![s] = "refused"]
              /\ last' = <<"stop_worker", s, FALSE>>
              /\ UNCHANGED <<worker_running, wcancel, starget, sexec>>
         ELSE /\ worker_running' = FALSE
              /\ sexec' = [sexec EXCEPT ![s] = running]
              /\ last' = <<"stop_worker", s, TRUE>>
              /\ IF wait /\ JoinSuspends
                   THEN /\ spc' = [spc EXCEPT ![s] = "join"]
                        /\ UNCHANGED <<wcancel, starget>>
                   ELSE StopCancel(s)
    /\ UNCHANGED <<qvars, jvars, evars, worker_task, wpc, wjob>>
    /\ UNCHANGED xvars

\* stop_worker resumes from `await self._queue.join()`
StopJoined(s) ==
    /\ spc[s] = "joined"
    /\ StopCancel(s)
    /\ last' = Step
    /\ UNCHANGED <<qvars, jvars, evars, worker_running, worker_task, ncalls,
                   wpc, wjob, swait, sbacklog, sexec>>
    /\ UNCHANGED xvars

\* stop_worker resumes from `await self._worker_task` and returns
StopReturn(s) ==
    /\ spc[s] = "await"
    /\ wpc[starget[s]] = "done"
    /\ spc' = [spc EXCEPT ![s] = "returned"]
    /\ sexec' = [sexec EXCEPT ![s] = {}]
    /\ last' = <<"stop_return", s, TRUE>>
    /\ UNCHANGED <<qvars, jvars, wvars, evars, ncalls, swait, starget, sbacklog>>
    /\ UNCHANGED xvars

\* TaskQueue.wait_empty, made as call number c: `await self._queue.join()`
\* returns at once when no accepted job is unfinished, else suspends
wait_empty(c) ==
    /\ c = ncalls + 1
    /\ ncalls' = c
    /\ IF JoinSuspends
         THEN /\ epc' = [epc EXCEPT ![c] = "join"]
              /\ elen' = [elen EXCEPT ![c] = Len(inserted)]
              /\ last' = <<"wait_empty", c, FALSE>>
         ELSE /\ last' = <<"wait_empty", c, TRUE>>
              /\ UNCHANGED evars
    /\ UNCHANGED <<qvars, wvars, jvars, svars>>
    /\ UNCHANGED xvars

\* wait_empty resumes from `await self._queue.join()` and returns
WaitEmptyReturn(c) ==
    /\ epc[c] = "joined"
    /\ epc' = [epc EXCEPT ![c] = "none"]
    /\ elen' = [elen EXCEPT ![c] = 0]
    /\ last' = <<"wait_return", c, TRUE>>
    /\ UNCHANGED <<qvars, wvars, jvars, svars, ncalls>>
    /\ UNCHANGED xvars

\* TaskQueue.qsize, made as call number c: returns self._queue.qsize()
qsize(c) ==
    /\ c = ncalls + 1
    /\ ncalls' = c
    /\ last' = <<"qsize", Len(queue), TRUE>>
    /\ UNCHANGED <<qvars, wvars, jvars, svars, evars>>
    /\ UNCHANGED xvars

\* is_full that compares with > instead of >=
is_full_strict(c) ==
    /\ c = ncalls + 1
    /\ ncalls' = c
    /\ last' = <<"is_full", c, Len(queue) > Cap>>
    /\ UNCHANGED <<qvars, wvars, jvars, svars, evars>>
    /\ UNCHANGED xvars

\* TaskQueue.is_full, made as call number c: returns self._queue.full()
is_full(c) ==
    /\ c = ncalls + 1
    /\ ncalls' = c
    /\ last' = <<"is_full", c, QueueFull>>
    /\ UNCHANGED <<qvars, wvars, jvars, svars, evars>>
    /\ UNCHANGED xvars

\* TaskQueue.is_empty, made as call number c: returns self._queue.empty()
is_empty(c) ==
    /\ c = ncalls + 1
    /\ ncalls' = c
    /\ last' = <<"is_empty", c, QueueEmpty>>
    /\ UNCHANGED <<qvars, wvars, jvars, svars, evars>>
    /\ UNCHANGED xvars

----------------------------------------------------------------------------
Kinds == {"async", "sync"}

Next ==
    \/ \E j \in Jobs, k \in Kinds : Put(j, k)
    \/ \E j \in Jobs : PutResume(j)
    \/ \E j \in Jobs, k \in Kinds : PutNowait(j, k)
    \/ \E w \in Workers : WorkerBegin(w)
    \/ \E w \in Workers : WorkerGet(w)
    \/ \E w \in Workers : WorkerTimeout(w)
    \/ \E w \in Workers : WorkerFault(w)
    \/ \E w \in Workers, out \in Outcomes : JobFinish(w, out)
    \/ \E j \in Jobs, out \in Outcomes : ThreadFinish(j, out)
    \/ \E w \in Workers : WorkerResume(w)
    \/ \E w \in Workers : WorkerCancelled(w)
    \/ \E w \in Workers : start_worker(w)
    \/ \E s \in Stops, wait \in BOOLEAN : stop_worker(s, wait)
    \/ \E s \in Stops : StopJoined(s)
    \/ \E s \in Stops : StopReturn(s)
    \/ \E c \in Calls : wait_empty(c)
    \/ \E c \in Calls : WaitEmptyReturn(c)

Spec == Init /\ [][Next]_vars

\* The synchronous methods called one after the other by one coroutine: no
\* other coroutine runs in between, so a worker task that was created has
\* not taken its first step
IntroNext ==
    \/ \E j \in Jobs, k \in Kinds : PutNowait(j, k)
    \/ \E w \in Workers : start_worker(w)
    \/ \E c \in Calls : qsize(c)
    \/ \E c \in Calls : is_full(c)
    \/ \E c \in Calls : is_empty(c)

IntroSpec == Init /\ [][IntroNext]_vars

----------------------------------------------------------------------------
\* manager_bot/main.py: run_manager_bot, around the queue ai_task_queue

\* `ai_task_queue.start_worker()`
MainStartsWorker(w) ==
    /\ mpc = "setup"
    /\ worker_task = 0
    /\ start_worker(w)

\* `await application.initialize()`, `await application.start()` and
\* `await application.updater.start_polling()`: an exception of the first two
\* leaves run_manager_bot before its try statement
MainPolls(out) ==
    /\ mpc = "setup"
    /\ worker_task # 0
    /\ mpc' = IF out = "raise" THEN "raised" ELSE "polling"
    /\ UNCHANGED <<qvars, wvars, jvars, svars, evars, ncalls, last,
                   mlog, shutting_down, cvars, pvars>>

\* A handler of the bot queues a job while updates are processed
HandlerPut(j, k) ==
    /\ mpc \in {"polling", "stop_worker"}
    /\ Put(j, k)

PollingExits == {"KeyboardInterrupt", "CancelledError", "Exception"}

\* The try block is left by an exception: KeyboardInterrupt and
\* CancelledError set _shutting_down, and the finally clause runs the
\* shutdown only if the flag is set
PollingEnds(exc) ==
    /\ mpc = "polling"
    /\ shutting_down' = IF exc \in {"KeyboardInterrupt", "CancelledError"}
                          THEN TRUE ELSE shutting_down
    /\ mpc' = IF shutting_down' THEN "stop_worker" ELSE "raised"
    /\ UNCHANGED <<qvars, wvars, jvars, svars, evars, ncalls, last,
                   mlog, cvars, pvars>>

\* `await ai_task_queue.stop_worker(wait=True)` up to its first suspension
MainStopsWorker(s) ==
    /\ mpc = "stop_worker"
    /\ \A t \in Stops : spc[t] = "idle"
    /\ stop_worker(s, TRUE)

\* stop_worker has returned to run_manager_bot
MainStopReturned ==
    /\ mpc = "stop_worker"
    /\ \E s \in Stops : spc[s] \in {"returned", "refused"}
    /\ mlog' = Append(mlog, <<"stop_worker", "return">>)
    /\ mpc' = "updater_stop"
    /\ UNCHANGED <<qvars, wvars, jvars, svars, evars, ncalls, last,
                   shutting_down, cvars, pvars>>

AfterStep(p) ==
    CASE p = "updater_stop" -> "app_stop"
      [] p = "app_stop" -> "app_shutdown"
      [] p = "app_shutdown" -> "end"

\* `await application.updater.stop()`, `await application.stop()` and
\* `await application.shutdown()`, each in its own try statement whose
\* `except Exception: pass` goes on to the next one
MainStep(out) ==
    /\ mpc \in {"updater_stop", "app_stop", "app_shutdown"}
    /\ mlog' = Append(mlog, <<mpc, out>>)
    /\ mpc' = AfterStep(mpc)
    /\ UNCHANGED <<qvars, wvars, jvars, svars, evars, ncalls, last,
                   shutting_down, cvars, pvars>>

ShutdownNext ==
    \/ \E w \in Workers : MainStartsWorker(w)
    \/ \E out \in Outcomes : MainPolls(out)
    \/ \E j \in Jobs, k \in Kinds : HandlerPut(j, k)
    \/ \E exc \in PollingExits : PollingEnds(exc)
    \/ \E s \in Stops : MainStopsWorker(s)
    \/ MainStopReturned
    \/ \E out \in Outcomes : MainStep(out)
    \/ \E j \in Jobs : PutResume(j)
    \/ \E w \in Workers : WorkerBegin(w)
    \/ \E w \in Workers : WorkerGet(w)
    \/ \E w \in Workers : WorkerTimeout(w)
    \/ \E w \in Workers, out \in Outcomes : JobFinish(w, out)
    \/ \E j \in Jobs, out \in Outcomes : ThreadFinish(j, out)
    \/ \E w \in Workers : WorkerResume(w)
    \/ \E w \in Workers : WorkerCancelled(w)
    \/ \E s \in Stops : StopJoined(s)
    \/ \E s \in Stops : StopReturn(s)

ShutdownSpec == Init /\ [][ShutdownNext]_vars

\* Every coroutine that is ready runs, jobs end, and run_manager_bot goes
\* on whenever it is not suspended; when polling ends and whether handlers
\* queue jobs is up to the environment
ShutdownProgress ==
    \/ \E w \in Workers : MainStartsWorker(w)
    \/ \E out \in Outcomes : MainPolls(out)
    \/ \E s \in Stops : MainStopsWorker(s)
    \/ MainStopReturned
    \/ \E out \in Outcomes : MainStep(out)
    \/ \E j \in Jobs : PutResume(j)
    \/ \E w \in Workers : WorkerBegin(w)
    \/ \E w \in Workers : WorkerGet(w)
    \/ \E w \in Workers : WorkerTimeout(w)
    \/ \E w \in Workers, out \in Outcomes : JobFinish(w, out)
    \/ \E j \in Jobs, out \in Outcomes : ThreadFinish(j, out)
    \/ \E w \in Workers : WorkerResume(w)
    \/ \E w \in Workers : WorkerCancelled(w)
    \/ \E s \in Stops : StopJoined(s)
    \/ \E s \in Stops : StopReturn(s)

FairShutdownSpec == ShutdownSpec /\ WF_vars(ShutdownProgress)

----------------------------------------------------------------------------
\* manager_bot/manager_bot.py: the command that queues the analysis of a
\* vacancy, and the job it queues

\* The records the Vacancies table can hold for the vacancy: a vacancy that
\* is not in the table has no field set
VacancyRecords ==
    {r \in [exists : BOOLEAN, description_recieved : BOOLEAN,
            sourcing_criterias_recieved : BOOLEAN] :
        ~r.exists => (~r.description_recieved /\ ~r.sourcing_criterias_recieved)}

CriteriaInit ==
    /\ QueueInit
    /\ MainInit
    /\ PeriodicInit
    /\ vac \in VacancyRecords
    /\ vwrote = {}

\* The three validations of the command and the reading of the prompt file
\* (promptRead: the file could be read)
MayEnqueue(promptRead) ==
    /\ vac.exists
    /\ vac.description_recieved
    /\ ~vac.sourcing_criterias_recieved
    /\ promptRead

\* define_sourcing_criterias_triggered_by_admin_command, made as call c: it
\* raises, or goes on to `await ai_task_queue.put(...)` of the coroutine
\* function get_sourcing_criterias_from_ai_and_save_to_db
DefineCriteria(c, promptRead) ==
    IF MayEnqueue(promptRead)
      THEN Put(c, "async")
      ELSE /\ c = ncalls + 1
           /\ ncalls' = c
           /\ last' = <<"define_raise", c, FALSE>>
           /\ UNCHANGED <<qvars, wvars, jvars, svars, evars, xvars>>

\* get_sourcing_criterias_from_ai_and_save_to_db sets
\* sourcing_criterias_recieved and stores the result
JobWrites(w) ==
    /\ wpc[w] = "exec"
    /\ wjob[w] \in running
    /\ wjob[w] \notin vwrote
    /\ vac' = [vac EXCEPT !.sourcing_criterias_recieved = TRUE]
    /\ vwrote' = vwrote \cup {wjob[w]}
    /\ UNCHANGED <<qvars, wvars, jvars, svars, evars, ncalls, last, mvars, pvars>>

\* The job returns after its writes, or raises before them (the result
\* could not be read)
CriteriaJobEnds(w, out) ==
    /\ wpc[w] = "exec"
    /\ (out = "return") <=> (wjob[w] \in vwrote)
    /\ JobFinish(w, out)

CriteriaNext ==
    \/ \E c \in Calls, promptRead \in BOOLEAN : DefineCriteria(c, promptRead)
    \/ \E w \in Workers : start_worker(w)
    \/ \E j \in Jobs : PutResume(j)
    \/ \E w \in Workers : WorkerBegin(w)
    \/ \E w \in Workers : WorkerGet(w)
    \/ \E w \in Workers : WorkerTimeout(w)
    \/ \E w \in Workers : JobWrites(w)
    \/ \E w \in Workers, out \in Outcomes : CriteriaJobEnds(w, out)

CriteriaSpec == CriteriaInit /\ [][CriteriaNext]_vars

----------------------------------------------------------------------------
\* shared_services/scheduler_service.py: run_periodic_task_for_all_users

\* everything but the state of the periodic loop
nonpvars == <<qvars, wvars, jvars, svars, evars, ncalls, last, mvars, cvars>>

\* The function is entered with no shutdown_flag callable, or with one
\* that returns False or True at that time
PeriodicEntered ==
    /\ QueueInit
    /\ MainInit
    /\ VacancyInit
    /\ ppc = "check1"
    /\ pflag \in {"none", "false", "true"}
    /\ puser = 0
    /\ pcycle = 0
    /\ pinvoked = 0
    /\ pseen = FALSE
    /\ pcancel = FALSE

\* `shutdown_flag and shutdown_flag()`
FlagReturnsTrue == pflag = "true"

\* The owner of the flag requests the shutdown; the flag is never lowered
SetShutdown ==
    /\ pflag = "false"
    /\ pflag' = "true"
    /\ UNCHANGED <<ppc, puser, pcycle, pinvoked, pseen, pcancel, nonpvars>>

\* top of `while True`: the check before the wait
Check1 ==
    /\ ppc = "check1"
    /\ IF FlagReturnsTrue
         THEN /\ ppc' = "done"
              /\ pseen' = TRUE
              /\ UNCHANGED pcycle
         ELSE /\ pcycle < MaxCycles
              /\ pcycle' = pcycle + 1
              /\ ppc' = "sleep"
              /\ UNCHANGED pseen
    /\ UNCHANGED <<pflag, puser, pinvoked, pcancel, nonpvars>>

\* `await asyncio.sleep(interval_seconds)` returns
Sleep ==
    /\ ppc = "sleep"
    /\ ~pcancel
    /\ ppc' = "check2"
    /\ UNCHANGED <<pflag, puser, pcycle, pinvoked, pseen, pcancel, nonpvars>>

\* the check after the wait
Check2 ==
    /\ ppc = "check2"
    /\ IF FlagReturnsTrue
         THEN /\ ppc' = "done"
              /\ pseen' = TRUE
         ELSE /\ ppc' = "read"
              /\ UNCHANGED pseen
    /\ UNCHANGED <<pflag, puser, pcycle, pinvoked, pcancel, nonpvars>>

\* get_users_records_file_path() and the reading of the records.  An
\* Exception of the first goes to the outer handler (`continue`), one of the
\* second to the handler of the inner try: both begin the next cycle.  In
\* these sources the name get_users_records_file_path is not bound in the
\* module (its import stands inside a string literal), so the call raises
\* NameError; the model also covers the name being bound.
ReadResults == {"path_raises", "read_raises", "records"}

ReadRecords(res) ==
    /\ ppc = "read"
    /\ IF res = "records"
         THEN /\ ppc' = "user"
              /\ puser' = 0
         ELSE /\ ppc' = "check1"
              /\ UNCHANGED puser
    /\ UNCHANGED <<pflag, pcycle, pinvoked, pseen, pcancel, nonpvars>>

\* what is_vacany_data_enough_for_resume_analysis does for a user
FilterResults == {"enough", "not_enough", "raises"}

\* UserCheck without the check of the flag before each user
UserCheck_nocheck(f) ==
    /\ ppc = "user"
    /\ IF puser = NUsers
         THEN /\ ppc' = "check1"
              /\ UNCHANGED <<puser, pinvoked, pseen>>
         ELSE IF f = "enough"
                THEN /\ ppc' = "task"
                     /\ pinvoked' = pinvoked + 1
                     /\ UNCHANGED <<puser, pseen>>
                ELSE /\ puser' = puser + 1
                     /\ UNCHANGED <<ppc, pinvoked, pseen>>
    /\ UNCHANGED <<pflag, pcycle, pcancel, nonpvars>>

\* One turn of `for bot_user_id, user_data in records.items()` up to its
\* first await: the end of the records, the check of the flag (break), the
\* filter, and the invocation of task_function
UserCheck(f) ==
    /\ ppc = "user"
    /\ IF puser = NUsers
         THEN /\ ppc' = "check1"
              /\ UNCHANGED <<puser, pinvoked, pseen>>
         ELSE IF FlagReturnsTrue
                THEN /\ ppc' = "check1"
                     /\ pseen' = TRUE
                     /\ UNCHANGED <<puser, pinvoked>>
                ELSE IF f = "enough"
                       THEN /\ ppc' = "task"
                            /\ pinvoked' = pinvoked + 1
                            /\ UNCHANGED <<puser, pseen>>
                       ELSE /\ puser' = puser + 1
                            /\ UNCHANGED <<ppc, pinvoked, pseen>>
    /\ UNCHANGED <<pflag, pcycle, pcancel, nonpvars>>

\* task_function returns, or raises an Exception that the handler of the
\* user logs: the loop goes on with the next user
TaskEnds(out) ==
    /\ ppc = "task"
    /\ ~pcancel
    /\ ppc' = "user"
    /\ puser' = puser + 1
    /\ UNCHANGED <<pflag, pcycle, pinvoked, pseen, pcancel, nonpvars>>

\* The task of the loop is cancelled while it is suspended
PeriodicCancel ==
    /\ ppc \in {"sleep", "task"}
    /\ ~pcancel
    /\ pcancel' = TRUE
    /\ UNCHANGED <<ppc, pflag, puser, pcycle, pinvoked, pseen, nonpvars>>

\* CancelledError is raised at the await: `except asyncio.CancelledError: break`
PeriodicCancelled ==
    /\ pcancel
    /\ ppc \in {"sleep", "task"}
    /\ ppc' = "done"
    /\ pcancel' = FALSE
    /\ UNCHANGED <<pflag, puser, pcycle, pinvoked, pseen, nonpvars>>

\* the steps of the loop itself
PeriodicProgress ==
    \/ Check1
    \/ Sleep
    \/ Check2
    \/ \E res \in ReadResults : ReadRecords(res)
    \/ \E f \in FilterResults : UserCheck(f)
    \/ \E out \in Outcomes : TaskEnds(out)
    \/ PeriodicCancelled

PeriodicNext ==
    \/ SetShutdown
    \/ PeriodicCancel
    \/ PeriodicProgress

PeriodicSpec == PeriodicEntered /\ [][PeriodicNext]_vars

\* the sleep ends, task_function ends and the loop runs when it is ready
FairPeriodicSpec == PeriodicSpec /\ WF_vars(PeriodicProgress)

----------------------------------------------------------------------------
\* The event loop runs every coroutine that is ready and executor threads
\* run to their end; calls of the public methods are up to the callers.
Internal ==
    \/ \E j \in Jobs : PutResume(j)
    \/ \E w \in Workers : WorkerBegin(w)
    \/ \E w \in Workers : WorkerGet(w)
    \/ \E w \in Workers : WorkerTimeout(w)
    \/ \E w \in Workers, out \in Outcomes : JobFinish(w, out)
    \/ \E j \in Jobs, out \in Outcomes : ThreadFinish(j, out)
    \/ \E w \in Workers : WorkerResume(w)
    \/ \E w \in Workers : WorkerCancelled(w)
    \/ \E s \in Stops : StopJoined(s)
    \/ \E s \in Stops : StopReturn(s)
    \/ \E c \in Calls : WaitEmptyReturn(c)

\* The steps that are ready at once: the event loop runs them before the
\* one-second timer of a worker's get expires, so a worker whose retrieval
\* keeps failing or timing out delays none of them for ever
Ready ==
    \/ \E j \in Jobs : PutResume(j)
    \/ \E w \in Workers : WorkerBegin(w)
    \/ \E w \in Workers : WorkerGet(w)
    \/ \E w \in Workers, out \in Outcomes : JobFinish(w, out)
    \/ \E j \in Jobs, out \in Outcomes : ThreadFinish(j, out)
    \/ \E w \in Workers : WorkerResume(w)
    \/ \E w \in Workers : WorkerCancelled(w)
    \/ \E s \in Stops : StopJoined(s)
    \/ \E s \in Stops : StopReturn(s)
    \/ \E c \in Calls : WaitEmptyReturn(c)

FairSpec == Spec /\ WF_vars(Internal) /\ WF_vars(Ready)

----------------------------------------------------------------------------
\* Derived notions

Range(f) == {f[i] : i \in DOMAIN f}

\* worker tasks whose coroutine has not ended and that are not about to end
\* by a cancellation already requested
ActiveWorkers == {w \in Workers : wpc[w] \in {"new", "get", "exec"} /\ ~wcancel[w]}

\* jobs whose callable is executing, not counting an asynchronous job that is
\* about to be ended by the cancellation of its worker
Executing ==
    running \ {wjob[w] : w \in {v \in Workers : wcancel[v] /\ wpc[v] = "exec"
                                                /\ jkind[wjob[v]] = "async"}}

IsPrefix(a, b) ==
    /\ Len(a) <= Len(b)
    /\ \A i \in 1..Len(a) : a[i] = b[i]

NoDuplicates(a) == \A i, k \in 1..Len(a) : a[i] = a[k] => i = k

----------------------------------------------------------------------------
\* C1: jobs start executing in the order in which they were inserted into
\* the queue (by put or put_nowait): the sequence of started jobs is always a
\* prefix of the sequence of inserted jobs.
FIFOOrder == IsPrefix(started, inserted)

\* three jobs started, the first two enqueued before start_worker (call 3)
\* and the third one after it
FIFOOrderWitness ==
    /\ worker_task = 3
    /\ started = <<1, 2, 4>>

\* C2: at most one job is executing at any instant.
AtMostOneJobExecuting == Cardinality(Executing) <= 1

\* C9: at most one worker loop is active at a time.
AtMostOneWorkerLoop == Cardinality(ActiveWorkers) <= 1


\* a step that is call number c of the public methods, of the method(s) ops
CallStep(c, ops) == ncalls = c - 1 /\ ncalls' = c /\ last'[1] \in ops

\* C3: when a stop_worker(wait=True) call that found the worker running
\* has returned, every job that was in the queue when it was called has been
\* executed to its end.
GracefulStopDrained ==
    \A s \in Stops :
        (spc[s] = "returned" /\ swait[s]) => Range(sbacklog[s]) \subseteq finished

\* a graceful stop called with a job in the queue has returned
GracefulStopDrainedWitness ==
    \E s \in Stops : spc[s] = "returned" /\ swait[s] /\ Len(sbacklog[s]) >= 1

\* C4: a graceful stop called on a running worker with a non-empty queue,
\* with no caller of put pending and no call of any public method after it,
\* eventually returns (jobs terminate and ready coroutines run: FairSpec).
GracefulStopTerminates ==
    \A s \in Stops :
        [](( /\ spc[s] = "join"
             /\ Len(sbacklog[s]) >= 1
             /\ putters = <<>> /\ woken = {}
             /\ [](ncalls = s) ) => <>(spc[s] = "returned"))

\* C5: the queue never holds more jobs than its capacity.
CapacityBound == Len(queue) <= Cap

\* the queue is at capacity and an insertion was refused or made to wait
CapacityBoundWitness ==
    /\ Len(queue) = Cap
    /\ \E j \in Jobs : putRet[j] \in {"False", "suspended"}

\* C6: a put_nowait call never suspends: on a queue at capacity it returns
\* False and leaves the queue as it was, with room it returns True and the job
\* is at the tail; a rejected job is never in the queue and never executed.
PutNowaitNeverSuspends ==
    /\ [][\A j \in Jobs : CallStep(j, {"put_nowait"}) =>
            /\ putRet'[j] # "suspended" /\ putters' = putters /\ woken' = woken
            /\ IF Len(queue) >= Cap
                 THEN /\ last'[3] = FALSE /\ putRet'[j] = "False"
                      /\ queue' = queue /\ inserted' = inserted
                      /\ unfinished' = unfinished
                 ELSE /\ last'[3] = TRUE /\ putRet'[j] = "True"
                      /\ queue' = Append(queue, j)]_vars
    /\ [](\A j \in Jobs : putRet[j] = "False" =>
            /\ j \notin Range(queue) /\ j \notin Range(started)
            /\ j \notin running /\ j \notin finished)

\* a put_nowait call was rejected and the worker has executed other jobs since
PutNowaitNeverSuspendsWitness ==
    /\ \E j \in Jobs : putRet[j] = "False"
    /\ Len(started) >= Cap

\* C7: a put call on a queue at capacity suspends and does not insert; a
\* put call returns only by a step taken with room in the queue, which
\* appends the job at the tail (length plus one), and it returns True; a
\* suspended caller's job is not in the queue and is not lost.
PutSuspendsOnFull ==
    /\ [][\A j \in Jobs : CallStep(j, {"put", "put_suspend"}) =>
            IF Len(queue) >= Cap
              THEN /\ putRet'[j] = "suspended" /\ queue' = queue
                   /\ inserted' = inserted /\ j \in Range(putters')
              ELSE /\ putRet'[j] = "True" /\ queue' = Append(queue, j)]_vars
    /\ [][\A j \in Jobs : (putRet[j] = "suspended" /\ putRet'[j] # "suspended") =>
            /\ putRet'[j] = "True" /\ last' = <<"put", j, TRUE>>
            /\ Len(queue) < Cap
            /\ queue' = Append(queue, j)
            /\ Len(queue') = Len(queue) + 1]_vars
    /\ [](\A j \in Jobs : putRet[j] = "suspended" =>
            /\ j \in Range(putters) \cup woken
            /\ j \notin Range(inserted))

\* a put call that had been suspended has returned after a later call
PutSuspendsOnFullWitness ==
    \E j \in Jobs : last = <<"put", j, TRUE>> /\ ncalls > j

\* the worker loop that start_worker launched last is on and stays wanted
WorkerOn == worker_running /\ worker_task \in ActiveWorkers

\* jobs whose execution was ended by the cancellation of their worker
Aborted == {j \in Range(started) : j \notin running /\ j \notin finished}

\* put callers still suspended, and accepted jobs not executed yet
Unserved ==
    {j \in Jobs : \/ putRet[j] = "suspended"
                  \/ putRet[j] = "True" /\ j \notin finished /\ j \notin Aborted}

\* C8: no wake-up is lost (while callers wait in _putters, at least as
\* many callers have been resumed as the queue has free places), and whenever
\* a put caller is suspended or an accepted job is not executed yet, then
\* eventually the worker is stopped or every put call has returned True and
\* every accepted job has been executed.
PutEventuallySucceeds ==
    /\ [](putters # <<>> => Cardinality(woken) >= Cap - Len(queue))
    /\ (Unserved # {}) ~> (Unserved = {} \/ ~WorkerOn)

\* capacity + 1 jobs were put before the worker was started (the last put
\* suspended), and all have been executed in the order of the calls
PutEventuallySucceedsWitness ==
    /\ worker_task = Cap + 2
    /\ Len(started) = Cap + 1
    /\ \A i \in 1..(Cap + 1) : started[i] = i /\ putRet[i] = "True"
    /\ finished = 1..(Cap + 1)

\* C10: a start_worker call made while _worker_running is set starts no
\* worker task and changes neither the flag, the worker task, the workers'
\* positions nor the queue; no job is ever started twice.
StartWorkerIdempotent ==
    /\ [][\A w \in Workers : (CallStep(w, {"start_worker"}) /\ worker_running) =>
            /\ last'[3] = FALSE
            /\ worker_running' = worker_running /\ worker_task' = worker_task
            /\ wpc' = wpc /\ wjob' = wjob /\ wcancel' = wcancel
            /\ queue' = queue /\ unfinished' = unfinished
            /\ started' = started]_vars
    /\ []NoDuplicates(started)

\* start_worker was called on a running worker with a job in the queue
StartWorkerIdempotentWitness ==
    /\ \E w \in Workers : last = <<"start_worker", w, FALSE>>
    /\ queue # <<>>
    /\ worker_running


----------------------------------------------------------------------------
\* A step in which the job held by worker w ends by itself (its callable
\* returned or raised) and the worker goes on after _execute_task
JobEndStep(w) == wpc[w] = "exec" /\ ~wcancel[w] /\ wpc'[w] # "exec"

\* The job that ends in a JobEndStep(w) raised
JobRaised(w) == wjob[w] \in failed'

\* C11: a job that raises does not halt the worker loop: in the step in which
\* the failure is handled the worker goes back to the loop condition exactly
\* as after a success (to the next get while the queue is running), the
\* running flag, the worker task and the queued jobs are left as they were
\* and no cancellation is pending on the worker, so the jobs behind the
\* failed one are taken next.
FailureDoesNotHaltWorker ==
    [][\A w \in Workers :
          (JobEndStep(w) /\ JobRaised(w)) =>
              /\ wpc'[w] = LoopTest
              /\ worker_running' = worker_running
              /\ worker_task' = worker_task
              /\ queue' = queue
              /\ ~wcancel'[w]]_vars

\* Jobs a, b were enqueued in this order, a raised, b was executed after it
\* and returned, all in the only loop ever started, which is still running
FailureDoesNotHaltWorkerWitness ==
    /\ Len(inserted) = 2
    /\ inserted[1] \in failed
    /\ inserted[2] \in finished \ failed
    /\ started = inserted
    /\ worker_running
    /\ Cardinality({w \in Workers : wpc[w] # "none"}) = 1
    /\ wpc[worker_task] = "get"


\* C12: every job that ends by itself is marked done, whether it returned or
\* raised an Exception: the step that handles its end decrements the count
\* of unfinished jobs by one, and when the count reaches zero it releases
\* every suspended wait_empty call and every stop_worker(wait=True) call
\* suspended in join, else it releases none.
TaskDoneOnEveryOutcome ==
    [][\A w \in Workers :
          JobEndStep(w) =>
              /\ unfinished' = unfinished - 1
              /\ \A c \in Calls :
                    epc[c] = "join" =>
                        epc'[c] = IF unfinished = 1 THEN "joined" ELSE "join"
              /\ \A s \in Stops :
                    spc[s] = "join" =>
                        spc'[s] = IF unfinished = 1 THEN "joined" ELSE "join"]_vars

\* A suspended wait_empty call has returned and so has a graceful stop that
\* was suspended in join, and every accepted job raised
TaskDoneOnEveryOutcomeWitness ==
    /\ inserted # <<>>
    /\ Range(inserted) \subseteq failed
    /\ last[1] = "wait_return"
    /\ \E s \in Stops : spc[s] = "returned" /\ swait[s] /\ starget[s] # 0


\* A step in which the loop of worker w ends while it holds a job
LoopEndsInJob(w) == wpc[w] = "exec" /\ wpc'[w] = "done"

\* C13 as stated: a stop request never interrupts a started job, for both
\* values of wait: whenever a worker loop ends while it holds a job, that
\* job has run to completion.
StopNeverInterruptsJob ==
    [][\A w \in Workers : LoopEndsInJob(w) => wjob[w] \in finished']_vars

\* C13, amended: stop_worker(wait=True) never interrupts a job that was
\* executing when it was called: when it has cancelled the worker task, each
\* of those jobs has run to completion.  A loop ends while it holds a job
\* that has not ended only by the cancellation of a stop_worker call, and
\* such a call that found the job executing was made with wait=False; the
\* cancellation aborts an asynchronous job (it is neither executing nor
\* completed afterwards) and leaves the thread of a synchronous job
\* executing after the loop has ended.
StopInterruptsOnlyWhenImmediate ==
    /\ [](\A s \in Stops : (spc[s] = "await" /\ swait[s]) => sexec[s] \subseteq finished)
    /\ [][\A w \in Workers :
            (LoopEndsInJob(w) /\ wjob[w] \notin finished') =>
                /\ wcancel[w]
                /\ \E s \in Stops : spc[s] = "await" /\ starget[s] = w
                /\ \A s \in Stops :
                      (spc[s] = "await" /\ starget[s] = w /\ wjob[w] \in sexec[s])
                          => ~swait[s]
                /\ IF jkind[wjob[w]] = "async"
                     THEN wjob[w] \notin running'
                     ELSE wjob[w] \in running']_vars

\* stop_worker(wait=False) was called while an asynchronous job was
\* executing; the worker task has ended and the job is aborted
StopInterruptsOnlyWhenImmediateWitness ==
    \E s \in Stops :
        /\ spc[s] = "await"
        /\ ~swait[s]
        /\ wpc[starget[s]] = "done"
        /\ sexec[s] \cap Aborted # {}


\* A step in which a cancellation is delivered to worker w inside
\* _execute_task
CancelledInJob(w) == wpc[w] = "exec" /\ wcancel[w] /\ ~wcancel'[w]

\* C14: a cancellation delivered while a job executes is not handled like an
\* ordinary exception: in that step the worker loop ends, no job is taken
\* from the queue, the count of unfinished jobs is not decremented, no
\* caller suspended in join is released and the job is not recorded as
\* completed; a loop that has ended takes no step again.
CancellationEndsLoop ==
    /\ [][\A w \in Workers :
            CancelledInJob(w) =>
                /\ wpc'[w] = "done"
                /\ queue' = queue
                /\ started' = started
                /\ unfinished' = unfinished
                /\ spc' = spc
                /\ epc' = epc
                /\ finished' = finished
                /\ failed' = failed]_vars
    /\ [][\A w \in Workers : wpc[w] = "done" => wpc'[w] = "done" /\ wjob'[w] = 0]_vars

\* A job was cancelled in flight, the loop has ended with jobs left in the
\* queue, and the cancelled job still counts as unfinished
CancellationEndsLoopWitness ==
    /\ Cardinality(Aborted) = 1
    /\ ActiveWorkers = {}
    /\ queue # <<>>
    /\ unfinished = Len(queue) + 1
    /\ running = {}


\* The jobs accepted before a suspended wait_empty call c was made
AcceptedBefore(c) == {inserted[i] : i \in 1..elen[c]}

\* C15: wait_empty returns at once exactly when no accepted job is
\* unfinished, else it suspends; when a suspended call is released and when
\* it returns, every job accepted before the call has been executed to its
\* end and none of them is in the queue or executing.  The running flag
\* plays no part: the call neither reads nor changes it.
WaitEmptyWaitsForAccepted ==
    /\ [](\A c \in Calls :
            epc[c] = "joined" =>
                /\ AcceptedBefore(c) \subseteq finished
                /\ AcceptedBefore(c) \cap (Range(queue) \cup running) = {})
    /\ [][\A c \in Calls :
            /\ CallStep(c, {"wait_empty"}) =>
                  /\ last'[3] = (unfinished = 0)
                  /\ last'[3] => /\ Range(inserted) \subseteq finished
                                 /\ queue = <<>>
                                 /\ epc'[c] = "none"
                  /\ ~last'[3] => epc'[c] = "join"
                  /\ worker_running' = worker_running
            /\ (epc[c] # "none" /\ epc'[c] = "none") =>
                  /\ epc[c] = "joined"
                  /\ last' = <<"wait_return", c, TRUE>>
                  /\ worker_running' = worker_running]_vars

\* A wait_empty call that was suspended with a job pending has returned
\* while the worker is still running
WaitEmptyWaitsForAcceptedWitness ==
    /\ last[1] = "wait_return"
    /\ WorkerOn
    /\ finished # {}


\* How many times job j occurs in the sequence q
Occurrences(q, j) == Cardinality({i \in DOMAIN q : q[i] = j})

\* C16: no accepted job is dropped.  Every job the worker removes from the
\* queue has its callable invoked in the same step (it is appended to the
\* started jobs and is executing), the queue changes only by a job appended
\* at its end or removed at its head, and in every state each accepted job
\* is either in the queue (once) or has had its callable invoked: it is
\* executing, has run to its end, or was ended by a cancellation of the
\* worker, and nothing else is in the queue or has been invoked.
NoAcceptedJobDropped ==
    /\ [](\A j \in Jobs :
            IF j \in Range(inserted)
              THEN Occurrences(queue, j) + Occurrences(started, j) = 1
              ELSE Occurrences(queue, j) + Occurrences(started, j) = 0)
    /\ [](\A j \in Jobs : putRet[j] = "True" => j \in Range(inserted))
    /\ [](running \cup finished \subseteq Range(started))
    /\ [][queue' # queue =>
            \/ \E j \in Jobs : queue' = Append(queue, j)
            \/ /\ queue # <<>>
               /\ queue' = Tail(queue)
               /\ started' = Append(started, Head(queue))
               /\ Head(queue) \in running']_vars

\* Of three accepted jobs one has run to its end, one was ended by a
\* cancellation and one is still in the queue, with no loop left
NoAcceptedJobDroppedWitness ==
    /\ Len(inserted) = 3
    /\ Len(queue) = 1
    /\ Cardinality(finished) = 1
    /\ Cardinality(Aborted) = 1
    /\ ActiveWorkers = {}


\* C17: the worker can be restarted: once a stop_worker call that found the
\* worker running has returned, the queue is stopped (the flag is off and no
\* loop is alive), and a start_worker call that follows launches a new
\* worker loop, which is then the only loop and takes the jobs in the order
\* in which they were accepted.
RestartAfterStop ==
    /\ [](last[1] = "stop_return" => (~worker_running /\ ActiveWorkers = {}))
    /\ [][\A w \in Workers :
            (last[1] = "stop_return" /\ CallStep(w, {"start_worker"})) =>
                /\ last'[3]
                /\ worker_task' = w
                /\ ActiveWorkers' = {w}]_vars
    /\ []FIFOOrder


\* C18: no retry and no failure report.  The callable of a job is invoked at
\* most once, whatever the worker is stopped and started in between; the
\* value a put or put_nowait call returned never changes afterwards; the
\* step that handles a raising job puts nothing into the queue, starts
\* nothing and changes no caller's result, and the caller of every job that
\* raised got True.
NoRetryNoReport ==
    /\ [](\A j \in Jobs : Occurrences(started, j) <= 1)
    /\ [](\A j \in failed : putRet[j] = "True")
    /\ [][\A j \in Jobs :
            putRet[j] \in {"True", "False"} => putRet'[j] = putRet[j]]_vars
    /\ [][\A w \in Workers :
            (JobEndStep(w) /\ JobRaised(w)) =>
                /\ queue' = queue
                /\ started' = started
                /\ inserted' = inserted
                /\ putRet' = putRet
                /\ putters' = putters
                /\ woken' = woken]_vars

\* A job has raised, the worker was stopped and started again, and every
\* accepted job has been invoked once and is marked done
NoRetryNoReportWitness ==
    /\ failed # {}
    /\ Cardinality({w \in Workers : wpc[w] # "none"}) >= 2
    /\ Len(started) >= 2
    /\ started = inserted
    /\ unfinished = 0


\* Worker w awaits the executor future of a synchronous job whose thread is
\* still executing it
AwaitsThread(w) ==
    wpc[w] = "exec" /\ wjob[w] \in running /\ jkind[wjob[w]] = "sync"

\* C19: a synchronous job runs in a thread of its own and the worker awaits
\* it.  The step that starts it leaves the job executing and the worker
\* suspended on it; while the thread executes, the callers of put_nowait,
\* put, start_worker, stop_worker and wait_empty can take their steps (as
\* long as calls are left to make); and the worker leaves the job only when
\* the thread has ended (it then has run to its end) or when the worker task
\* is cancelled, so it takes no other job before.
SyncJobAwaitedInThread ==
    /\ []((ncalls < MaxCalls /\ \E w \in Workers : AwaitsThread(w)) =>
            /\ ENABLED (\E j \in Jobs, k \in Kinds : PutNowait(j, k))
            /\ ENABLED (\E j \in Jobs, k \in Kinds : Put(j, k))
            /\ ENABLED (\E s \in Stops, wait \in BOOLEAN : stop_worker(s, wait))
            /\ ENABLED (\E v \in Workers : start_worker(v))
            /\ ENABLED (\E c \in Calls : wait_empty(c)))
    /\ [][\A w \in Workers :
            /\ (wpc[w] = "get" /\ wpc'[w] = "exec" /\ jkind[wjob'[w]] = "sync") =>
                  AwaitsThread(w)'
            /\ (AwaitsThread(w) /\ ~AwaitsThread(w)') =>
                  \/ wpc'[w] = "exec" /\ wjob'[w] = wjob[w] /\ wjob[w] \in finished'
                  \/ wcancel[w] /\ wpc'[w] = "done"
            /\ (wpc[w] = "exec" /\ jkind[wjob[w]] # "async" /\ wjob'[w] # wjob[w]) =>
                  \/ wjob[w] \in finished /\ wjob'[w] = 0
                  \/ wcancel[w] /\ wpc'[w] = "done"]_vars

\* put_nowait was called and returned True while the thread of a
\* synchronous job was executing, and the worker still awaits that job
SyncJobAwaitedInThreadWitness ==
    /\ last[1] = "put_nowait"
    /\ last[3]
    /\ \E w \in Workers : AwaitsThread(w)


\* C20: an immediate stop neither waits for nor discards the queued jobs:
\* when a stop_worker(wait=False) call that found the worker running
\* returns, the jobs that were in the queue when it was called are still at
\* the head of the queue, in the same order, and none of them has been
\* started.
ImmediateStopKeepsQueue ==
    \A s \in Stops :
        (last = <<"stop_return", s, TRUE>> /\ ~swait[s]) =>
            /\ IsPrefix(sbacklog[s], queue)
            /\ Range(sbacklog[s]) \cap Range(started) = {}


\* Worker w waits in get on an empty queue, with no cancellation pending
IdleWorker(w) == wpc[w] = "get" /\ queue = <<>> /\ ~wcancel[w]

\* C21: an idle worker notices a stop request through the timeout of its
\* get: for a worker that waits on an empty queue the timeout step is always
\* possible, with no job arriving; it leaves the worker in the loop while
\* the running flag is set and ends the loop once the flag has been cleared.
IdleWorkerNoticesStop ==
    \A w \in Workers :
        IdleWorker(w) =>
            IF worker_running
              THEN ENABLED (WorkerTimeout(w) /\ wpc'[w] = "get" /\ queue' = queue)
              ELSE ENABLED (WorkerTimeout(w) /\ wpc'[w] = "done" /\ queue' = queue)

\* A stop_worker(wait=True) call has cleared the flag and is suspended in
\* join, so it has cancelled nothing, and the loop it found running waits
\* in get on an empty queue: only the timeout can end this loop
IdleWorkerNoticesStopWitness ==
    \E s \in Stops :
        /\ spc[s] = "join"
        /\ ~worker_running
        /\ worker_task # 0
        /\ worker_task < s
        /\ IdleWorker(worker_task)
        /\ putters = <<>>
        /\ woken = {}


\* C22: an unexpected exception in the worker loop outside of the job does
\* not end the loop.  Wherever the retrieval can raise, the handler leaves
\* the worker at the loop condition (in the loop while the running flag is
\* set) and takes nothing from the queue; and the bookkeeping cannot raise:
\* task_done raises only when the count of unfinished jobs is 0, and the
\* count covers every queued job and every job a worker holds.
LoopSurvivesFault ==
    /\ \A w \in Workers :
          (wpc[w] = "get" /\ ~wcancel[w]) =>
              ENABLED (/\ WorkerFault(w)
                       /\ wpc'[w] = IF worker_running THEN "get" ELSE "done"
                       /\ queue' = queue
                       /\ unfinished' = unfinished
                       /\ worker_running' = worker_running)
    /\ unfinished >= Len(queue) + Cardinality({w \in Workers : wpc[w] = "exec"})

\* The retrieval has just raised in a running loop with jobs in the queue:
\* the worker is back in get and the jobs are still queued
LoopSurvivesFaultWitness ==
    \E w \in Workers :
        /\ last = <<"fault", w, TRUE>>
        /\ wpc[w] = "get"
        /\ worker_running
        /\ Len(queue) = Cap
        /\ started # <<>>


\* C23: the introspection methods have no side effects and agree with the
\* occupancy: a call of qsize, is_full or is_empty changes nothing but the
\* count of calls and the returned value; qsize returns the number of queued
\* jobs, is_empty returns True exactly when that number is 0 and is_full
\* returns True exactly when it equals the capacity.
IntrospectionAgrees ==
    /\ [](last[1] = "qsize" => last[2] = Len(queue))
    /\ [](last[1] = "is_empty" => (last[3] <=> Len(queue) = 0))
    /\ [](last[1] = "is_full" => (last[3] <=> Len(queue) = Cap))
    /\ [][last'[1] \in {"qsize", "is_full", "is_empty"} =>
            UNCHANGED <<qvars, wvars, jvars, svars, evars>>]_vars

\* is_full has returned True on a queue at capacity whose worker was started
IntrospectionAgreesWitness ==
    /\ last[1] = "is_full"
    /\ last[3]
    /\ Len(queue) = Cap
    /\ worker_running


\* C24: stop_worker called while the worker is not running is a no-op: in
\* every state where _worker_running is False the call, in either mode,
\* returns at once without waiting, cancels nothing, and leaves the running
\* flag, the worker task, the worker loops, the queue, its drain accounting
\* and the jobs unchanged.
StopWhenNotRunningIsNoOp ==
    \A s \in Stops, wait \in BOOLEAN :
        (~worker_running /\ s = ncalls + 1) =>
            /\ ENABLED stop_worker(s, wait)
            /\ ~ENABLED (/\ stop_worker(s, wait)
                         /\ ~(/\ spc'[s] = "refused"
                              /\ UNCHANGED <<qvars, wvars, jvars, evars, starget, sexec>>))

\* a stop_worker call has returned at once while an earlier stop_worker is
\* still waiting for the drain of a queue that holds jobs
StopWhenNotRunningIsNoOpWitness ==
    \E s, s2 \in Stops :
        /\ last = <<"stop_worker", s, FALSE>>
        /\ spc[s] = "refused"
        /\ s2 < s
        /\ spc[s2] = "join"
        /\ queue # <<>>
        /\ worker_task # 0


\* C25: the running flag and the worker loop agree, so that start_worker is
\* never refused while no loop is running: whenever _worker_running is True
\* (the state in which start_worker returns without creating a task) a
\* worker loop task is alive.
FlagImpliesLoopAlive ==
    worker_running => ActiveWorkers # {}


\* C26: when a stop_worker call that found the worker running returns, in
\* either mode, _worker_running is False and no worker loop is active,
\* whatever other coroutines called while the stop was suspended.
StopReturnsStopped ==
    \A s \in Stops :
        last = <<"stop_return", s, TRUE>> =>
            /\ ~worker_running
            /\ ActiveWorkers = {}


\* Call c is suspended in join: as wait_empty or as stop_worker(wait=True)
InJoin(c) == epc[c] = "join" \/ spc[c] = "join"

\* A stop_worker(wait=False) has returned after its cancellation ended a
\* job in execution, a worker started afterwards waits in get, and nothing
\* is left to execute: the queue is empty, no caller of put is pending and
\* no job is executing
DrainedAfterCancellation ==
    /\ Aborted # {}
    /\ \E s \in Stops : spc[s] = "returned" /\ ~swait[s]
    /\ \E w \in Workers : wpc[w] = "get" /\ ~wcancel[w]
    /\ queue = <<>>
    /\ putters = <<>>
    /\ woken = {}
    /\ running = {}
    /\ \A w \in Workers : wpc[w] # "exec"

\* C27: the drain accounting survives a cancellation: a wait_empty or
\* stop_worker(wait=True) call that is suspended in join once the restarted
\* worker has executed every remaining job eventually returns.
DrainSurvivesCancellation ==
    \A c \in Calls :
        (InJoin(c) /\ DrainedAfterCancellation) ~> ~InJoin(c)


ShutdownOrder ==
    <<"stop_worker", "updater_stop", "app_stop", "app_shutdown">>

\* C28: shutdown order of the manager bot.  When polling ends with
\* KeyboardInterrupt or CancelledError the sequence begins with
\* stop_worker(wait=True); stop_worker, updater.stop, application.stop and
\* application.shutdown are gone through in that order, whatever each step
\* returns or raises; and once begun, the sequence reaches its end.
ShutdownRunsToEnd ==
    /\ [](/\ Len(mlog) <= Len(ShutdownOrder)
          /\ \A i \in 1..Len(mlog) : mlog[i][1] = ShutdownOrder[i])
    /\ [](\A s \in Stops : spc[s] # "idle" => swait[s])
    /\ [][(mpc = "polling" /\ shutting_down') => mpc' = "stop_worker"]_vars
    /\ (mpc = "stop_worker") ~> (mpc = "end")


\* C29: no analysis job of the vacancy starts executing once the vacancy's
\* sourcing_criterias_recieved is true.  The command queues the job only
\* for an existing vacancy whose description is received and whose criteria
\* are not received yet, and no worker takes a job of the vacancy from the
\* queue into execution while the flag is true, however the commands and the
\* queued jobs interleave.
NoAnalysisOnceCriteriaReceived ==
    /\ [][\A c \in Calls :
            CallStep(c, {"put", "put_suspend"}) =>
                /\ vac.exists
                /\ vac.description_recieved
                /\ ~vac.sourcing_criterias_recieved]_vars
    /\ [][\A w \in Workers :
            (wpc[w] = "get" /\ wpc'[w] = "exec") =>
                ~vac.sourcing_criterias_recieved]_vars


\* C30: the periodic loop honours its shutdown flag.  No invocation of
\* task_function starts while the flag is raised nor after shutdown_flag()
\* has returned True, and from then on the loop terminates; a cancellation
\* terminates it as well; and nothing else does: an Exception raised in a
\* cycle leaves the loop at its next user or its next cycle.
PeriodicHonoursShutdown ==
    /\ [][pinvoked' # pinvoked => (~pseen /\ ~FlagReturnsTrue)]_vars
    /\ FlagReturnsTrue ~> (ppc = "done")
    /\ pseen ~> (ppc = "done")
    /\ pcancel ~> (ppc = "done")
    /\ [][(pcancel /\ ~pcancel') => ppc' = "done"]_vars
    /\ [][(ppc # "done" /\ ppc' = "done") => (pcancel \/ FlagReturnsTrue)]_vars
    /\ [][ppc = "done" => ppc' = "done"]_vars

\* task_function was invoked, then the check before a user found the flag
\* raised, and the loop has terminated at the check before the wait
PeriodicHonoursShutdownWitness ==
    /\ ppc = "done"
    /\ pseen
    /\ pinvoked >= 1
    /\ puser >= 1
    /\ puser < NUsers

====
